---- MODULE Spec2Model ----
(***************************************************************************)
(* Incident response orchestrator: the pipeline coordinator               *)
(* (agents/orchestrator.py), the incident state (agents/state.py), the    *)
(* diagnosis engine (agents/analyzer.py) and the decision policy          *)
(* (agents/responder.py).                                                 *)
(*                                                                         *)
(* Percentages (confidence, similarity, memory_pct, cpu_pct) are Python   *)
(* floats in the source; here they are integers in hundredths of a        *)
(* percent (8500 is 85.0).                                                 *)
(*                                                                         *)
(* An Optional field is None (the empty sequence) or Some(v) (a one-item  *)
(* sequence).                                                              *)
(***************************************************************************)
EXTENDS Integers, Sequences, FiniteSets, TLC

(* ------------------------------ bounds -------------------------------- *)

\* number of handle_alert calls made on the orchestrator
NumRuns == 2

\* the wall clock (whole seconds) runs from 0 to MaxClock
MaxClock == 1

(* ------------------------- program constants -------------------------- *)

\* ResponderAgent.AUTO_EXECUTE_MIN_CONFIDENCE = 85.0
AUTO_EXECUTE_MIN_CONFIDENCE == 8500

\* ResponderAgent.APPROVAL_MIN_CONFIDENCE = 70.0
APPROVAL_MIN_CONFIDENCE == 7000

\* Hypothesis.confidence: float  # 0-100
MaxConfidence == 10000

RiskLevels == {"LOW", "MEDIUM", "HIGH"}

Decisions == {"AUTO_EXECUTE", "REQUEST_APPROVAL", "ALERT_HUMAN"}

None == << >>

Some(v) == << v >>

Min(a, b) == IF a <= b THEN a ELSE b

Runs == 1..NumRuns

(* --------------------------- diagnosis engine ------------------------- *)

\* The texts the engine matches keywords in, each with the keywords that a
\* substring test on its lower-cased form finds ("OutOfMemory" in a message
\* makes "memory" a substring of its lower-cased form).
TextKeywords ==
    [t \in {"Connection timeout to Redis after 5000ms",
            "OutOfMemoryError: Java heap space exceeded",
            "Failed to allocate connection from pool",
            "HTTP 503: Service temporarily unavailable",
            "Circuit breaker opened for redis-connection",
            "Error data unavailable",
            "Memory leak in Redis connection pool introduced in recent deployment",
            "Database connection pool exhaustion after traffic spike",
            "Inefficient query after schema migration",
            "Bad deployment causing errors",
            "Possible deployment-related issue (deployment data unavailable)",
            "Memory/CPU exhaustion causing service degradation",
            "Connection pool exhaustion or dependency failure",
            "Circuit breaker activation indicating downstream dependency failure",
            "Unknown - insufficient data",
            "Rollback to previous version",
            "Restart pods and scale replicas",
            "Scale database/Redis replicas and restart",
            "Investigate downstream dependencies and restart",
            "Restart and monitor closely",
            "Resource pressure indicators detected",
            "Queried system.memory.used.pct over last hour",
            "Queried system.cpu.total.pct over last hour"} |->
       CASE t = "Connection timeout to Redis after 5000ms" -> {"connection", "timeout"}
         [] t = "OutOfMemoryError: Java heap space exceeded" -> {"memory"}
         [] t = "Failed to allocate connection from pool" ->
                {"failed to allocate", "connection", "pool"}
         [] t = "Circuit breaker opened for redis-connection" ->
                {"circuit breaker", "circuit", "connection"}
         [] t = "Memory leak in Redis connection pool introduced in recent deployment" ->
                {"memory", "connection", "pool", "deployment"}
         [] t = "Database connection pool exhaustion after traffic spike" ->
                {"connection", "pool"}
         [] t = "Bad deployment causing errors" -> {"deployment"}
         [] t = "Possible deployment-related issue (deployment data unavailable)" ->
                {"deployment"}
         [] t = "Memory/CPU exhaustion causing service degradation" -> {"memory", "cpu"}
         [] t = "Connection pool exhaustion or dependency failure" ->
                {"connection", "pool", "dependency"}
         [] t = "Circuit breaker activation indicating downstream dependency failure" ->
                {"circuit breaker", "circuit", "dependency"}
         [] t = "Rollback to previous version" -> {"rollback"}
         [] t = "Restart pods and scale replicas" -> {"restart", "scale"}
         [] t = "Scale database/Redis replicas and restart" -> {"scale", "restart"}
         [] t = "Investigate downstream dependencies and restart" -> {"restart"}
         [] t = "Restart and monitor closely" -> {"restart"}
         [] t = "Resource pressure indicators detected" -> {"resource"}
         [] t = "Queried system.memory.used.pct over last hour" -> {"memory"}
         [] t = "Queried system.cpu.total.pct over last hour" -> {"cpu"}
         [] OTHER -> {}]

\* keyword in text.lower()
Mentions(text, keyword) == keyword \in TextKeywords[text]

\* dict.get(key, 0)
Get(metrics, key) == IF key \in DOMAIN metrics THEN metrics[key] ELSE 0

\* "history and history.similar_incidents": the incidents of an optional
\* HistorianMatches, none when it is None
SimilarIncidents(history) ==
    IF history = None THEN << >> ELSE history[1].similar_incidents

\* a sort that puts the later of two hypotheses of equal confidence first
RECURSIVE SortByConfidenceTiesReversed(_)
SortByConfidenceTiesReversed(hs) ==
    IF Len(hs) <= 1 THEN hs
    ELSE LET rest == SortByConfidenceTiesReversed(Tail(hs))
             h == Head(hs)
             before == SelectSeq(rest, LAMBDA x : x.confidence >= h.confidence)
             after == SelectSeq(rest, LAMBDA x : x.confidence < h.confidence)
         IN before \o << h >> \o after

\* a _generate_hypotheses that leaves the list in channel order
SortByConfidenceKeepsOrder(hs) == hs

\* hypotheses.sort(key=lambda h: h.confidence, reverse=True): a stable sort,
\* hypotheses of equal confidence keep their order
RECURSIVE SortByConfidence(_)
SortByConfidence(hs) ==
    IF Len(hs) <= 1 THEN hs
    ELSE LET rest == SortByConfidence(Tail(hs))
             h == Head(hs)
             before == SelectSeq(rest, LAMBDA x : x.confidence > h.confidence)
             after == SelectSeq(rest, LAMBDA x : x.confidence <= h.confidence)
         IN before \o << h >> \o after

\* a deployment channel that needs a deployment record to fire
DeploymentHypothesisNoFallback(findings, history) ==
    LET similar == SimilarIncidents(history) IN
    IF Len(findings.recent_deployments) > 0
    THEN << [hypothesis |-> "Bad deployment causing errors",
             confidence |-> 7500 +
                 (IF Len(similar) > 0 /\ similar[1].similarity_score > 8000
                  THEN 1000 ELSE 0)] >>
    ELSE << >>

\* the deployment channel of _generate_hypotheses
DeploymentHypothesis(findings, history) ==
    LET similar == SimilarIncidents(history) IN
    IF Len(findings.recent_deployments) > 0
    THEN << [hypothesis |-> "Bad deployment causing errors",
             confidence |-> 7500 +
                 (IF Len(similar) > 0 /\ similar[1].similarity_score > 8000
                  THEN 1000 ELSE 0)] >>
    ELSE IF Len(findings.error_types) > 0 /\ findings.error_count > 100
    THEN << [hypothesis |-> "Possible deployment-related issue (deployment data unavailable)",
             confidence |->
                 (IF \E i \in 1..Len(similar) : Mentions(similar[i].root_cause, "deployment")
                  THEN 7000 ELSE 6000)] >>
    ELSE << >>

\* a memory/CPU channel with the memory threshold at 90%
ResourceHypothesisOldThreshold(findings) ==
    LET memory_pct == Get(findings.resource_metrics, "memory_pct")
        cpu_pct == Get(findings.resource_metrics, "cpu_pct")
        msgs == findings.key_error_messages
        confidence ==
            5000
            + (IF memory_pct > 9000 THEN memory_pct - 9000 ELSE 0)
            + (IF cpu_pct > 7000 THEN (cpu_pct - 7000) \div 2 ELSE 0)
            + (IF \E i \in 1..Len(findings.error_types) :
                     findings.error_types[i] = "OutOfMemoryError"
               THEN 1500 ELSE 0)
            + (IF \E i \in 1..Len(msgs) : Mentions(msgs[i], "memory")
               THEN 1000 ELSE 0)
    IN IF memory_pct > 9000 \/ cpu_pct > 7000
       THEN << [hypothesis |-> "Memory/CPU exhaustion causing service degradation",
                confidence |-> Min(8500, confidence)] >>
       ELSE << >>

\* a memory/CPU channel that does not cap its confidence
ResourceHypothesisUncapped(findings) ==
    LET memory_pct == Get(findings.resource_metrics, "memory_pct")
        cpu_pct == Get(findings.resource_metrics, "cpu_pct")
        msgs == findings.key_error_messages
        confidence ==
            5000
            + (IF memory_pct > 6000 THEN memory_pct - 6000 ELSE 0)
            + (IF cpu_pct > 7000 THEN (cpu_pct - 7000) \div 2 ELSE 0)
            + (IF \E i \in 1..Len(findings.error_types) :
                     findings.error_types[i] = "OutOfMemoryError"
               THEN 1500 ELSE 0)
            + (IF \E i \in 1..Len(msgs) : Mentions(msgs[i], "memory")
               THEN 1000 ELSE 0)
    IN IF memory_pct > 6000 \/ cpu_pct > 7000
       THEN << [hypothesis |-> "Memory/CPU exhaustion causing service degradation",
                confidence |-> confidence] >>
       ELSE << >>

\* the memory/CPU channel of _generate_hypotheses
ResourceHypothesis(findings) ==
    LET memory_pct == Get(findings.resource_metrics, "memory_pct")
        cpu_pct == Get(findings.resource_metrics, "cpu_pct")
        msgs == findings.key_error_messages
        confidence ==
            5000
            + (IF memory_pct > 6000 THEN memory_pct - 6000 ELSE 0)
            + (IF cpu_pct > 7000 THEN (cpu_pct - 7000) \div 2 ELSE 0)
            + (IF \E i \in 1..Len(findings.error_types) :
                     findings.error_types[i] = "OutOfMemoryError"
               THEN 1500 ELSE 0)
            + (IF \E i \in 1..Len(msgs) : Mentions(msgs[i], "memory")
               THEN 1000 ELSE 0)
    IN IF memory_pct > 6000 \/ cpu_pct > 7000
       THEN << [hypothesis |-> "Memory/CPU exhaustion causing service degradation",
                confidence |-> Min(8500, confidence)] >>
       ELSE << >>

\* a connection-pool channel that takes nothing from the history
ConnectionHypothesisNoHistory(findings, history) ==
    LET connection_errors ==
            SelectSeq(findings.key_error_messages,
                      LAMBDA msg : \E k \in {"connection", "timeout", "pool",
                                             "circuit breaker", "failed to allocate"} :
                                       Mentions(msg, k))
        confidence == 5500 + Min(Len(connection_errors) * 500, 2500)
    IN IF Len(connection_errors) >= 2
       THEN << [hypothesis |-> "Connection pool exhaustion or dependency failure",
                confidence |-> Min(8500, confidence)] >>
       ELSE << >>

\* the connection-pool channel of _generate_hypotheses
ConnectionHypothesis(findings, history) ==
    LET similar == SimilarIncidents(history)
        connection_errors ==
            SelectSeq(findings.key_error_messages,
                      LAMBDA msg : \E k \in {"connection", "timeout", "pool",
                                             "circuit breaker", "failed to allocate"} :
                                       Mentions(msg, k))
        confidence ==
            5500 + Min(Len(connection_errors) * 500, 2500)
            + (IF \E i \in 1..Len(similar) :
                     \/ Mentions(similar[i].root_cause, "connection")
                     \/ Mentions(similar[i].root_cause, "pool")
               THEN 1500 ELSE 0)
    IN IF Len(connection_errors) >= 2
       THEN << [hypothesis |-> "Connection pool exhaustion or dependency failure",
                confidence |-> Min(8500, confidence)] >>
       ELSE << >>

\* the circuit-breaker channel of _generate_hypotheses
CircuitHypothesis(findings) ==
    LET circuit_breaker_errors ==
            SelectSeq(findings.key_error_messages,
                      LAMBDA msg : \/ Mentions(msg, "circuit breaker")
                                   \/ Mentions(msg, "circuit opened"))
        confidence == 6500 + Min(Len(circuit_breaker_errors) * 1000, 2000)
    IN IF Len(circuit_breaker_errors) > 0
       THEN << [hypothesis |->
                    "Circuit breaker activation indicating downstream dependency failure",
                confidence |-> Min(8500, confidence)] >>
       ELSE << >>

\* AnalyzerAgent._generate_hypotheses
GenerateHypotheses(findings, history) ==
    LET hypotheses == SortByConfidence(
            DeploymentHypothesis(findings, history) \o ResourceHypothesis(findings)
            \o ConnectionHypothesis(findings, history) \o CircuitHypothesis(findings))
    IN SubSeq(hypotheses, 1, Min(4, Len(hypotheses)))

\* a _determine_primary_cause that applies the history boost to the
\* fallback cause too
DeterminePrimaryCauseBoostsUnknown(hypotheses, history) ==
    LET similar == SimilarIncidents(history)
        top == IF Len(hypotheses) = 0
               THEN [hypothesis |-> "Unknown - insufficient data", confidence |-> 3000]
               ELSE hypotheses[1]
    IN [cause |-> top.hypothesis,
        confidence |->
            IF Len(similar) > 0 /\ similar[1].similarity_score > 8500
            THEN Min(9500, top.confidence + 1000)
            ELSE IF Len(similar) > 0 /\ similar[1].similarity_score > 7000
            THEN Min(9000, top.confidence + 500)
            ELSE top.confidence]

\* AnalyzerAgent._determine_primary_cause
DeterminePrimaryCause(hypotheses, history) ==
    LET similar == SimilarIncidents(history) IN
    IF Len(hypotheses) = 0
    THEN [cause |-> "Unknown - insufficient data", confidence |-> 3000]
    ELSE [cause |-> hypotheses[1].hypothesis,
          confidence |->
              IF Len(similar) > 0 /\ similar[1].similarity_score > 8500
              THEN Min(9500, hypotheses[1].confidence + 1000)
              ELSE IF Len(similar) > 0 /\ similar[1].similarity_score > 7000
              THEN Min(9000, hypotheses[1].confidence + 500)
              ELSE hypotheses[1].confidence]

\* a _recommend_action that tests the resource keywords before "deployment"
RecommendActionResourceFirst(root_cause) ==
    LET cause == root_cause.cause IN
    IF Mentions(cause, "memory") \/ Mentions(cause, "cpu") \/ Mentions(cause, "resource")
    THEN [action |-> "Restart pods and scale replicas", risk_level |-> "LOW"]
    ELSE IF Mentions(cause, "deployment")
    THEN [action |-> "Rollback to previous version", risk_level |-> "LOW"]
    ELSE IF Mentions(cause, "connection") \/ Mentions(cause, "pool")
    THEN [action |-> "Scale database/Redis replicas and restart", risk_level |-> "MEDIUM"]
    ELSE IF Mentions(cause, "circuit") \/ Mentions(cause, "dependency")
    THEN [action |-> "Investigate downstream dependencies and restart",
          risk_level |-> "MEDIUM"]
    ELSE [action |-> "Restart and monitor closely", risk_level |-> "MEDIUM"]

\* AnalyzerAgent._recommend_action: the action is named by its leading verb
\* phrase, the service name it embeds is left out
RecommendAction(root_cause) ==
    LET cause == root_cause.cause IN
    IF Mentions(cause, "deployment")
    THEN [action |-> "Rollback to previous version", risk_level |-> "LOW"]
    ELSE IF Mentions(cause, "memory") \/ Mentions(cause, "cpu") \/ Mentions(cause, "resource")
    THEN [action |-> "Restart pods and scale replicas", risk_level |-> "LOW"]
    ELSE IF Mentions(cause, "connection") \/ Mentions(cause, "pool")
    THEN [action |-> "Scale database/Redis replicas and restart", risk_level |-> "MEDIUM"]
    ELSE IF Mentions(cause, "circuit") \/ Mentions(cause, "dependency")
    THEN [action |-> "Investigate downstream dependencies and restart",
          risk_level |-> "MEDIUM"]
    ELSE [action |-> "Restart and monitor closely", risk_level |-> "MEDIUM"]

\* AnalyzerAgent._perform_analysis
PerformAnalysis(findings, history) ==
    LET hypotheses == GenerateHypotheses(findings, history)
        primary_cause == DeterminePrimaryCause(hypotheses, history)
    IN [hypotheses |-> hypotheses,
        primary_root_cause |-> primary_cause,
        recommended_action |-> RecommendAction(primary_cause)]


(* ------------------------------ the state ----------------------------- *)

VARIABLES
    now,            \* the wall clock, in whole seconds
    pc,             \* pc[r]: where handle_alert call r stands
    initial_state,  \* initial_state[r]: the IncidentState handle_alert creates
    channels,       \* channels[r]: the workflow graph's state values during invoke
    node_state,     \* node_state[r]: the IncidentState handed to the running stage
    update,         \* update[r]: the dict the stage returned, not yet merged
    resp,           \* resp[r]: the locals of respond and _execute_decision
    invoked,        \* invoked[r]: the stages invoked so far, in order
    calls,          \* calls[r]: the calls made to the remediation executor,
                    \*           the notification sender and the monitoring probe
    raised,         \* raised[r]: the exception that left the workflow, if any
    dec_in,         \* the arguments of a _make_decision call
    dec_out,        \* its result
    diag_in,        \* the arguments of a _perform_analysis call
    diag_out,       \* its result
    ent_in,         \* the arguments an entity of state.py is built from
    ent_out,        \* the entity, or the validation error
    rec_in,         \* the argument of a _recommend_action call
    rec_out,        \* its result
    reports         \* reports[r]: the report generated from the state run r returned

vars == << now, pc, initial_state, channels, node_state, update, resp,
           invoked, calls, raised, dec_in, dec_out,
           diag_in, diag_out, ent_in, ent_out, rec_in, rec_out, reports >>

Stages == << "detective", "historian", "analyzer", "responder" >>

\* the alerts handed to handle_alert
Alerts ==
    { [alert_id |-> "ALERT-20260203-001", severity |-> "critical",
       service |-> "checkout-api"] }

\* IncidentState(incident_id=..., alert=...): every other field at its default
IncidentState(incident_id, alert, t) ==
    [incident_id |-> incident_id,
     alert |-> alert,
     detective_findings |-> None,
     historian_matches |-> None,
     analyzer_diagnosis |-> None,
     responder_action |-> None,
     workflow_status |-> "started",
     started_at |-> t,
     completed_at |-> None,
     total_duration_seconds |-> None,
     timeline |-> << >>,
     errors |-> << >>]

\* IncidentState.add_timeline_event (the timestamp and the details map of
\* the entry are left out)
AddTimelineEvent(state, agent, event) ==
    [state EXCEPT !.timeline = Append(@, [agent |-> agent, event |-> event])]

\* IncidentState.mark_completed
MarkCompleted(state, t) ==
    [state EXCEPT !.workflow_status = "completed",
                  !.completed_at = Some(t),
                  !.total_duration_seconds = Some(t - state.started_at)]

\* a mark_failed that leaves the error list alone
MarkFailedNoError(state, error, t) ==
    [state EXCEPT !.workflow_status = "failed",
                  !.completed_at = Some(t),
                  !.total_duration_seconds = Some(t - state.started_at)]

\* IncidentState.mark_failed
MarkFailed(state, error, t) ==
    [state EXCEPT !.workflow_status = "failed",
                  !.completed_at = Some(t),
                  !.errors = Append(@, error),
                  !.total_duration_seconds = Some(t - state.started_at)]

\* one state object shared by every run: what is stored for x is stored for all
PutShared(f, x, v) == [y \in DOMAIN f \cup {x} |-> v]

\* f with x mapped to v, x added to its domain when new
Put(f, x, v) == [y \in DOMAIN f \cup {x} |-> IF y = x THEN v ELSE f[y]]

(* ------------------------- the stages' inputs ------------------------- *)

\* What the evidence collector can hand back: the canned findings of
\* _simulate_investigation, and findings _real_investigation builds from its
\* queries and their fallbacks.
FindingsInputs ==
    { \* _simulate_investigation
      [error_count |-> 1247,
       error_types |-> << "ConnectionTimeoutException", "OutOfMemoryError",
                          "503 Service Unavailable" >>,
       resource_metrics |-> [cpu_pct |-> 8750, memory_pct |-> 9420, disk_pct |-> 4530],
       recent_deployments |-> << "v2.4.1" >>,
       key_error_messages |-> << "Connection timeout to Redis after 5000ms",
                                 "OutOfMemoryError: Java heap space exceeded",
                                 "Failed to allocate connection from pool",
                                 "HTTP 503: Service temporarily unavailable",
                                 "Circuit breaker opened for redis-connection" >>],
      \* _real_investigation, every query failed: the fallback values
      [error_count |-> 0,
       error_types |-> << "UnknownException" >>,
       resource_metrics |-> [cpu_pct |-> 5000, memory_pct |-> 7000, disk_pct |-> 4500],
       recent_deployments |-> << >>,
       key_error_messages |-> << "Error data unavailable" >>],
      \* _real_investigation, connection errors and no deployment record
      [error_count |-> 350,
       error_types |-> << "ConnectionTimeoutException" >>,
       resource_metrics |-> [cpu_pct |-> 5000, memory_pct |-> 7000, disk_pct |-> 4500],
       recent_deployments |-> << >>,
       key_error_messages |-> << "Connection timeout to Redis after 5000ms",
                                 "Failed to allocate connection from pool" >>],
      \* _real_investigation, the same errors with less memory in use
      [error_count |-> 350,
       error_types |-> << "ConnectionTimeoutException" >>,
       resource_metrics |-> [cpu_pct |-> 5000, memory_pct |-> 5000, disk_pct |-> 4500],
       recent_deployments |-> << >>,
       key_error_messages |-> << "Connection timeout to Redis after 5000ms",
                                 "Failed to allocate connection from pool" >>],
      \* _real_investigation, a quiet service
      [error_count |-> 5,
       error_types |-> << "ServiceUnavailableException" >>,
       resource_metrics |-> [cpu_pct |-> 2000, memory_pct |-> 2000, disk_pct |-> 4500],
       recent_deployments |-> << >>,
       key_error_messages |-> << "HTTP 503: Service temporarily unavailable" >>] }

\* What the history matcher can hand back: the three incidents of
\* _simulate_history_search, or no hit from _real_history_search.
HistoryInputs ==
    { [similar_incidents |->
          << [incident_id |-> "INC-2847", similarity_score |-> 8750,
              root_cause |->
                  "Memory leak in Redis connection pool introduced in recent deployment"],
             [incident_id |-> "INC-2691", similarity_score |-> 7230,
              root_cause |-> "Database connection pool exhaustion after traffic spike"],
             [incident_id |-> "INC-2534", similarity_score |-> 6580,
              root_cause |-> "Inefficient query after schema migration"] >>],
      [similar_incidents |-> << >>] }

(* ------------------------------ the graph ----------------------------- *)

\* The compiled StateGraph of _build_workflow keeps the state as one value
\* per IncidentState field.  A node is called with an IncidentState built
\* from these values, so what a stage does to its state argument
\* (add_timeline_event, mark_completed) stays in that instance; only the
\* dict the stage returns is written back.  invoke returns the values as a
\* dict (handle_alert, "LangGraph returns the final state as a dict"), which
\* handle_alert copies key by key onto the IncidentState it created; that
\* state can be "completed" with total_duration_seconds still None, the case
\* handle_alert's "None-safe formatting" guards.
ApplyWrites(values, writes) ==
    [k \in DOMAIN values |-> IF k \in DOMAIN writes THEN writes[k] ELSE values[k]]

NoUpdate == [k \in {} |-> None]

\* a graph whose detective edge leads to the analyzer
EdgeSkipsHistorian(merging) ==
    CASE merging = "merge_detective" -> "analyzer"
      [] merging = "merge_historian" -> "analyzer"
      [] merging = "merge_analyzer" -> "responder"
      [] merging = "merge_responder" -> "finalize"

\* the edges of _build_workflow, from the node whose update is being merged:
\* detective -> historian -> analyzer -> responder -> END (invoke returns)
Edge(merging) ==
    CASE merging = "merge_detective" -> "historian"
      [] merging = "merge_historian" -> "analyzer"
      [] merging = "merge_analyzer" -> "responder"
      [] merging = "merge_responder" -> "finalize"

\* the dict DetectiveAgent.investigate returns
InvestigateReturn(findings) ==
    [detective_findings |-> Some(findings), workflow_status |-> "investigating"]

\* the dict HistorianAgent.search_history returns
SearchHistoryReturn(matches) ==
    [historian_matches |-> Some(matches), workflow_status |-> "analyzing"]

\* an analyze that returns the detective's status
AnalyzeReturnInvestigating(diagnosis) ==
    [analyzer_diagnosis |-> Some(diagnosis), workflow_status |-> "investigating"]

\* the dict AnalyzerAgent.analyze returns
AnalyzeReturn(diagnosis) ==
    [analyzer_diagnosis |-> Some(diagnosis), workflow_status |-> "responding"]

\* a respond that returns its whole view of the outputs, the diagnosis reset
RespondReturnResetsDiagnosis(action) ==
    [responder_action |-> Some(action), analyzer_diagnosis |-> None,
     workflow_status |-> "completed"]

\* the dict ResponderAgent.respond returns
RespondReturn(action) ==
    [responder_action |-> Some(action), workflow_status |-> "completed"]

(* --------------------------- decision policy -------------------------- *)

\* a _make_decision that lets a high confidence override a HIGH risk tier
MakeDecisionNoRiskOverride(confidence, risk_level) ==
    IF confidence >= AUTO_EXECUTE_MIN_CONFIDENCE /\ risk_level = "LOW"
    THEN "AUTO_EXECUTE"
    ELSE IF confidence >= APPROVAL_MIN_CONFIDENCE
    THEN "REQUEST_APPROVAL"
    ELSE "ALERT_HUMAN"

\* a _make_decision that auto-executes from the approval threshold on
MakeDecisionAutoAtApproval(confidence, risk_level) ==
    IF risk_level = "HIGH"
    THEN "ALERT_HUMAN"
    ELSE IF confidence >= APPROVAL_MIN_CONFIDENCE /\ risk_level = "LOW"
    THEN "AUTO_EXECUTE"
    ELSE IF confidence >= APPROVAL_MIN_CONFIDENCE
    THEN "REQUEST_APPROVAL"
    ELSE "ALERT_HUMAN"

\* ResponderAgent._make_decision
MakeDecision(confidence, risk_level) ==
    IF risk_level = "HIGH"
    THEN "ALERT_HUMAN"
    ELSE IF confidence >= AUTO_EXECUTE_MIN_CONFIDENCE /\ risk_level = "LOW"
    THEN "AUTO_EXECUTE"
    ELSE IF confidence >= APPROVAL_MIN_CONFIDENCE
    THEN "REQUEST_APPROVAL"
    ELSE "ALERT_HUMAN"

(* ----------------------------- handle_alert --------------------------- *)

Init ==
    /\ now = 0
    /\ pc = [r \in Runs |-> "idle"]
    /\ initial_state = << >>
    /\ channels = << >>
    /\ node_state = << >>
    /\ update = [r \in Runs |-> NoUpdate]
    /\ resp = << >>
    /\ invoked = [r \in Runs |-> << >>]
    /\ calls = [r \in Runs |-> << >>]
    /\ raised = [r \in Runs |-> None]
    /\ dec_in = None
    /\ dec_out = None
    /\ diag_in = None
    /\ diag_out = None
    /\ ent_in = None
    /\ ent_out = None
    /\ rec_in = None
    /\ rec_out = None
    /\ reports = [r \in Runs |-> None]

\* time passes
Tick ==
    /\ now < MaxClock
    /\ now' = now + 1
    /\ UNCHANGED << pc, initial_state, channels, node_state, update, resp,
                    invoked, calls, raised, dec_in, dec_out,
                    diag_in, diag_out, ent_in, ent_out,
                    rec_in, rec_out, reports >>

\* handle_alert up to workflow.invoke: the incident id is the clock reading
\* formatted to the second ("INC-%Y%m%d%H%M%S")
HandleAlert(r) ==
    /\ pc[r] = "idle"
    /\ \E alert \in Alerts :
          LET state == AddTimelineEvent(IncidentState(now, alert, now),
                                        "orchestrator", "Incident workflow started")
          IN /\ initial_state' = Put(initial_state, r, state)
             /\ channels' = Put(channels, r, state)
    /\ pc' = [pc EXCEPT ![r] = "detective"]
    /\ UNCHANGED << now, node_state, update, resp, invoked, calls, raised,
                    dec_in, dec_out,
                    diag_in, diag_out, ent_in, ent_out,
                    rec_in, rec_out, reports >>

\* _run_detective, DetectiveAgent.investigate
RunDetective(r) ==
    /\ pc[r] = "detective"
    /\ invoked' = [invoked EXCEPT ![r] = Append(@, "detective")]
    /\ LET state == AddTimelineEvent(channels[r], "detective", "Investigation started")
       IN \/ \E findings \in FindingsInputs :
               /\ node_state' = Put(node_state, r,
                      AddTimelineEvent(state, "detective", "Investigation completed"))
               /\ update' = [update EXCEPT ![r] = InvestigateReturn(findings)]
               /\ pc' = [pc EXCEPT ![r] = "merge_detective"]
               /\ UNCHANGED raised
          \/ /\ node_state' = Put(node_state, r,
                      AddTimelineEvent(state, "detective", "Investigation failed"))
             /\ raised' = [raised EXCEPT ![r] = Some("detective: collaborator error")]
             /\ pc' = [pc EXCEPT ![r] = "except"]
             /\ UNCHANGED update
    /\ UNCHANGED << now, initial_state, channels, resp, calls, dec_in, dec_out,
                    diag_in, diag_out, ent_in, ent_out,
                    rec_in, rec_out, reports >>

\* _run_historian, HistorianAgent.search_history
RunHistorian(r) ==
    /\ pc[r] = "historian"
    /\ invoked' = [invoked EXCEPT ![r] = Append(@, "historian")]
    /\ LET state == AddTimelineEvent(channels[r], "historian", "History search started")
       IN \/ \E matches \in HistoryInputs :
               /\ node_state' = Put(node_state, r,
                      AddTimelineEvent(state, "historian", "History search completed"))
               /\ update' = [update EXCEPT ![r] = SearchHistoryReturn(matches)]
               /\ pc' = [pc EXCEPT ![r] = "merge_historian"]
               /\ UNCHANGED raised
          \/ /\ node_state' = Put(node_state, r,
                      AddTimelineEvent(state, "historian", "History search failed"))
             /\ raised' = [raised EXCEPT ![r] = Some("historian: collaborator error")]
             /\ pc' = [pc EXCEPT ![r] = "except"]
             /\ UNCHANGED update
    /\ UNCHANGED << now, initial_state, channels, resp, calls, dec_in, dec_out,
                    diag_in, diag_out, ent_in, ent_out,
                    rec_in, rec_out, reports >>

\* _run_analyzer, AnalyzerAgent.analyze
RunAnalyzer(r) ==
    /\ pc[r] = "analyzer"
    /\ invoked' = [invoked EXCEPT ![r] = Append(@, "analyzer")]
    /\ LET state == AddTimelineEvent(channels[r], "analyzer", "Analysis started")
           diagnosis == PerformAnalysis(state.detective_findings[1],
                                        state.historian_matches)
       IN \/ /\ node_state' = Put(node_state, r,
                      AddTimelineEvent(state, "analyzer", "Analysis completed"))
             /\ update' = [update EXCEPT ![r] = AnalyzeReturn(diagnosis)]
             /\ pc' = [pc EXCEPT ![r] = "merge_analyzer"]
             /\ UNCHANGED raised
          \/ /\ node_state' = Put(node_state, r,
                      AddTimelineEvent(state, "analyzer", "Analysis failed"))
             /\ raised' = [raised EXCEPT ![r] = Some("analyzer: collaborator error")]
             /\ pc' = [pc EXCEPT ![r] = "except"]
             /\ UNCHANGED update
    /\ UNCHANGED << now, initial_state, channels, resp, calls, dec_in, dec_out,
                    diag_in, diag_out, ent_in, ent_out,
                    rec_in, rec_out, reports >>

\* the graph writes the dict a node returned into its state values and
\* follows the node's edge
MergeUpdate(r) ==
    /\ pc[r] \in {"merge_detective", "merge_historian", "merge_analyzer", "merge_responder"}
    /\ channels' = [channels EXCEPT ![r] = ApplyWrites(@, update[r])]
    /\ update' = [update EXCEPT ![r] = NoUpdate]
    /\ pc' = [pc EXCEPT ![r] = Edge(pc[r])]
    /\ UNCHANGED << now, initial_state, node_state, resp, invoked, calls, raised,
                    dec_in, dec_out,
                    diag_in, diag_out, ent_in, ent_out,
                    rec_in, rec_out, reports >>

(* ------------------------------ responder ----------------------------- *)

\* the decision-rationale entry each branch of _execute_decision logs first
RationaleEntry(decision) ==
    CASE decision = "AUTO_EXECUTE" -> "Auto-execution approved"
      [] decision = "REQUEST_APPROVAL" -> "Requesting human approval"
      [] decision = "ALERT_HUMAN" -> "Human intervention required"

\* the entries _execute_remediation appends to the execution log
RemediationLog(action) ==
    << "Executing" >> \o
    (IF Mentions(action, "rollback")
     THEN << "Initiating deployment rollback", "Rolling back to previous version",
             "Rollback completed successfully" >>
     ELSE IF Mentions(action, "restart")
     THEN << "Initiating pod restart", "Performing rolling restart",
             "All pods restarted successfully" >>
     ELSE IF Mentions(action, "scale")
     THEN << "Initiating scaling operation", "Scaling replicas",
             "Scaling completed successfully" >>
     ELSE << "Action type not recognized, simulation only" >>)

\* the end of respond once _execute_decision returned action: the completed
\* event and mark_completed go to the stage's own state argument, the
\* returned dict carries the action and the status
RespondReturns(r, state, action) ==
    /\ node_state' = Put(node_state, r,
           MarkCompleted(AddTimelineEvent(state, "responder", "Response completed"), now))
    /\ update' = [update EXCEPT ![r] = RespondReturn(action)]
    /\ pc' = [pc EXCEPT ![r] = "merge_responder"]
    /\ UNCHANGED raised

\* the except clause of respond: the failed event goes to the stage's own
\* state argument and the exception is re-raised
RespondRaises(r, state, error) ==
    /\ node_state' = Put(node_state, r,
           AddTimelineEvent(state, "responder", "Response failed"))
    /\ raised' = [raised EXCEPT ![r] = Some(error)]
    /\ pc' = [pc EXCEPT ![r] = "except"]
    /\ UNCHANGED update

\* a respond whose branches start their execution log empty
RespondStartNoRationale(r) ==
    /\ pc[r] = "responder"
    /\ invoked' = [invoked EXCEPT ![r] = Append(@, "responder")]
    /\ LET state == AddTimelineEvent(channels[r], "responder",
                                     "Response evaluation started")
           diagnosis == state.analyzer_diagnosis[1]
           decision == MakeDecision(diagnosis.primary_root_cause.confidence,
                                    diagnosis.recommended_action.risk_level)
       IN /\ node_state' = Put(node_state, r, state)
          /\ resp' = Put(resp, r, [decision |-> decision,
                                   execution_log |-> << >>,
                                   notifications_sent |-> << >>])
    /\ pc' = [pc EXCEPT ![r] = "execute_decision"]
    /\ UNCHANGED << now, initial_state, channels, update, calls, raised,
                    dec_in, dec_out, diag_in, diag_out, ent_in, ent_out,
                    rec_in, rec_out, reports >>

\* _run_responder, ResponderAgent.respond up to the branch of
\* _execute_decision: the started event, _make_decision and the rationale
\* entry that opens the execution log
RespondStart(r) ==
    /\ pc[r] = "responder"
    /\ invoked' = [invoked EXCEPT ![r] = Append(@, "responder")]
    /\ LET state == AddTimelineEvent(channels[r], "responder",
                                     "Response evaluation started")
           diagnosis == state.analyzer_diagnosis[1]
           decision == MakeDecision(diagnosis.primary_root_cause.confidence,
                                    diagnosis.recommended_action.risk_level)
       IN /\ node_state' = Put(node_state, r, state)
          /\ resp' = Put(resp, r, [decision |-> decision,
                                   execution_log |-> << RationaleEntry(decision) >>,
                                   notifications_sent |-> << >>])
    /\ pc' = [pc EXCEPT ![r] = "execute_decision"]
    /\ UNCHANGED << now, initial_state, channels, update, calls, raised,
                    dec_in, dec_out,
                    diag_in, diag_out, ent_in, ent_out,
                    rec_in, rec_out, reports >>

\* the AUTO_EXECUTE branch: _execute_remediation
ExecuteRemediation(r) ==
    /\ pc[r] = "execute_decision"
    /\ resp[r].decision = "AUTO_EXECUTE"
    /\ LET action == node_state[r].analyzer_diagnosis[1].recommended_action.action
       IN /\ calls' = [calls EXCEPT ![r] = Append(@, "execute_remediation")]
          /\ resp' = [resp EXCEPT ![r].execution_log = @ \o RemediationLog(action)]
    /\ pc' = [pc EXCEPT ![r] = "auto_notify"]
    /\ UNCHANGED << now, initial_state, channels, node_state, update, invoked,
                    raised, dec_in, dec_out,
                    diag_in, diag_out, ent_in, ent_out,
                    rec_in, rec_out, reports >>

\* the AUTO_EXECUTE branch after the remediation: _create_notification
\* formats state.total_duration_seconds with ":.1f", a TypeError while it is
\* None; then _send_slack_notification, _monitor_service and the
\* ResponderAction (success is always True)
NotifyAndMonitor(r) ==
    /\ pc[r] = "auto_notify"
    /\ LET state == node_state[r]
           diagnosis == state.analyzer_diagnosis[1]
       IN IF state.total_duration_seconds = None
          THEN /\ RespondRaises(r, state, "TypeError: unsupported format string")
               /\ UNCHANGED calls
          ELSE \/ /\ calls' = [calls EXCEPT ![r] =
                         @ \o << "send_slack_notification", "monitor_service" >>]
                  /\ RespondReturns(r, state,
                         [decision |-> resp[r].decision,
                          action_taken |-> diagnosis.recommended_action.action,
                          execution_status |-> "SUCCESS",
                          execution_log |-> resp[r].execution_log,
                          notifications_sent |-> << "Slack: incident-alerts" >>,
                          monitoring_status |-> "Service healthy"])
               \/ /\ calls' = [calls EXCEPT ![r] = Append(@, "send_slack_notification")]
                  /\ RespondRaises(r, state, "responder: notification error")
    /\ UNCHANGED << now, initial_state, channels, resp, invoked, dec_in, dec_out,
                    diag_in, diag_out, ent_in, ent_out,
                    rec_in, rec_out, reports >>

\* the REQUEST_APPROVAL branch: _create_approval_request,
\* _send_slack_notification and the ResponderAction
RequestApproval(r) ==
    /\ pc[r] = "execute_decision"
    /\ resp[r].decision = "REQUEST_APPROVAL"
    /\ calls' = [calls EXCEPT ![r] = Append(@, "send_slack_notification")]
    /\ \/ RespondReturns(r, node_state[r],
              [decision |-> resp[r].decision,
               action_taken |-> "Awaiting human approval",
               execution_status |-> "PENDING_APPROVAL",
               execution_log |-> resp[r].execution_log,
               notifications_sent |-> << "Slack: incident-alerts (approval requested)" >>,
               monitoring_status |-> "Awaiting approval decision"])
       \/ RespondRaises(r, node_state[r], "responder: notification error")
    /\ UNCHANGED << now, initial_state, channels, resp, invoked, dec_in, dec_out,
                    diag_in, diag_out, ent_in, ent_out,
                    rec_in, rec_out, reports >>

\* the ALERT_HUMAN branch: _create_human_alert, _send_slack_notification and
\* the ResponderAction
AlertHuman(r) ==
    /\ pc[r] = "execute_decision"
    /\ resp[r].decision = "ALERT_HUMAN"
    /\ calls' = [calls EXCEPT ![r] = Append(@, "send_slack_notification")]
    /\ \/ RespondReturns(r, node_state[r],
              [decision |-> resp[r].decision,
               action_taken |-> "No automatic action taken - human alerted",
               execution_status |-> "PENDING_APPROVAL",
               execution_log |-> resp[r].execution_log,
               notifications_sent |-> << "Slack: incident-alerts",
                                         "PagerDuty: on-call engineer" >>,
               monitoring_status |-> "Awaiting human investigation"])
       \/ RespondRaises(r, node_state[r], "responder: notification error")
    /\ UNCHANGED << now, initial_state, channels, resp, invoked, dec_in, dec_out,
                    diag_in, diag_out, ent_in, ent_out,
                    rec_in, rec_out, reports >>

(* ------------------------ handle_alert, the end ----------------------- *)

\* workflow.invoke returned the state values as a dict: every key is set on
\* initial_state, mark_completed runs unless the status is already
\* "completed", and the state is returned
Finalize(r) ==
    /\ pc[r] = "finalize"
    /\ LET final_state == ApplyWrites(initial_state[r], channels[r])
       IN initial_state' = [initial_state EXCEPT ![r] =
              IF final_state.workflow_status # "completed"
              THEN MarkCompleted(final_state, now)
              ELSE final_state]
    /\ pc' = [pc EXCEPT ![r] = "returned"]
    /\ UNCHANGED << now, channels, node_state, update, resp, invoked, calls,
                    raised, dec_in, dec_out,
                    diag_in, diag_out, ent_in, ent_out,
                    rec_in, rec_out, reports >>

\* the except clause of handle_alert: mark_failed(str(e)) on initial_state,
\* then the exception is re-raised to the caller
HandleException(r) ==
    /\ pc[r] = "except"
    /\ initial_state' = [initial_state EXCEPT ![r] = MarkFailed(@, raised[r][1], now)]
    /\ pc' = [pc EXCEPT ![r] = "raised"]
    /\ UNCHANGED << now, channels, node_state, update, resp, invoked, calls,
                    raised, dec_in, dec_out,
                    diag_in, diag_out, ent_in, ent_out,
                    rec_in, rec_out, reports >>

\* IncidentOrchestrator.generate_report on the state handle_alert returned:
\* the dict it builds, field by field (of the fields the state keeps here;
\* the message and timestamp of the alert, the hosts, regions and duration of
\* the investigation, the resolution of an incident, the explanation and the
\* reasoning steps are copied the same way)
GenerateReport(state) ==
    [incident_id |-> state.incident_id,
     status |-> state.workflow_status,
     total_duration_seconds |-> state.total_duration_seconds,
     started_at |-> state.started_at,
     completed_at |-> state.completed_at,
     alert |-> [alert_id |-> state.alert.alert_id,
                service |-> state.alert.service,
                severity |-> state.alert.severity],
     investigation |->
         IF state.detective_findings # None
         THEN Some([error_count |-> state.detective_findings[1].error_count,
                    key_errors |-> state.detective_findings[1].key_error_messages])
         ELSE None,
     similar_incidents |->
         IF state.historian_matches # None
         THEN LET incidents == state.historian_matches[1].similar_incidents
              IN [i \in DOMAIN incidents |->
                      [incident_id |-> incidents[i].incident_id,
                       similarity_score |-> incidents[i].similarity_score,
                       root_cause |-> incidents[i].root_cause]]
         ELSE << >>,
     root_cause_analysis |->
         IF state.analyzer_diagnosis # None
         THEN Some([cause |-> state.analyzer_diagnosis[1].primary_root_cause.cause,
                    confidence |->
                        state.analyzer_diagnosis[1].primary_root_cause.confidence])
         ELSE None,
     remediation |->
         IF state.responder_action # None
         THEN Some([decision |-> state.responder_action[1].decision,
                    action_taken |-> state.responder_action[1].action_taken,
                    status |-> state.responder_action[1].execution_status,
                    execution_log |-> state.responder_action[1].execution_log,
                    notifications_sent |->
                        state.responder_action[1].notifications_sent])
         ELSE None,
     timeline |-> state.timeline,
     errors |-> state.errors]

\* the caller of handle_alert passes the state it got back to generate_report
Report(r) ==
    /\ pc[r] = "returned"
    /\ reports[r] = None
    /\ reports' = [reports EXCEPT ![r] = Some(GenerateReport(initial_state[r]))]
    /\ UNCHANGED << now, pc, initial_state, channels, node_state, update, resp,
                    invoked, calls, raised, dec_in, dec_out,
                    diag_in, diag_out, ent_in, ent_out, rec_in, rec_out >>

Next ==
    \/ Tick
    \/ \E r \in Runs :
          \/ HandleAlert(r)
          \/ RunDetective(r)
          \/ RunHistorian(r)
          \/ RunAnalyzer(r)
          \/ MergeUpdate(r)
          \/ RespondStart(r)
          \/ ExecuteRemediation(r)
          \/ NotifyAndMonitor(r)
          \/ RequestApproval(r)
          \/ AlertHuman(r)
          \/ Finalize(r)
          \/ HandleException(r)
          \/ Report(r)

Spec == Init /\ [][Next]_vars

(* ------------------- _make_decision over its domain ------------------- *)

InitDecide ==
    /\ now = 0
    /\ pc = [r \in Runs |-> "idle"]
    /\ initial_state = << >>
    /\ channels = << >>
    /\ node_state = << >>
    /\ update = [r \in Runs |-> NoUpdate]
    /\ resp = << >>
    /\ invoked = [r \in Runs |-> << >>]
    /\ calls = [r \in Runs |-> << >>]
    /\ raised = [r \in Runs |-> None]
    /\ dec_in \in { Some([confidence |-> c, risk_level |-> l]) :
                       c \in 0..MaxConfidence, l \in RiskLevels }
    /\ dec_out = None
    /\ diag_in = None
    /\ diag_out = None
    /\ ent_in = None
    /\ ent_out = None
    /\ rec_in = None
    /\ rec_out = None
    /\ reports = [r \in Runs |-> None]

\* one call of _make_decision
Decide ==
    /\ dec_out = None
    /\ dec_out' = Some(MakeDecision(dec_in[1].confidence, dec_in[1].risk_level))
    /\ UNCHANGED << dec_in, now, pc, initial_state, channels, node_state, update,
                    resp, invoked, calls, raised,
                    diag_in, diag_out, ent_in, ent_out,
                    rec_in, rec_out, reports >>

NextDecide == Decide

SpecDecide == InitDecide /\ [][NextDecide]_vars

(* ------------------ _perform_analysis over its domain ----------------- *)

\* the longest key_error_messages list handed to the engine
MaxMessages == 3

\* the error messages the evidence collector reports, one per keyword class:
\* a connection error, a memory error, a circuit-breaker error (which the
\* connection channel counts too), and one that no channel counts
ErrorMessages ==
    << "Connection timeout to Redis after 5000ms",
       "OutOfMemoryError: Java heap space exceeded",
       "Circuit breaker opened for redis-connection",
       "HTTP 503: Service temporarily unavailable" >>

\* key_error_messages: up to MaxMessages messages.  The engine counts the
\* messages of each class, so one list per multiset is taken.
MessageLists ==
    UNION { { [i \in 1..n |-> ErrorMessages[g[i]]] :
                g \in { f \in [1..n -> 1..Len(ErrorMessages)] :
                            \A i \in 1..(n - 1) : f[i] <= f[i + 1] } } :
            n \in 0..MaxMessages }

\* resource_metrics: no metric at all, or memory and cpu at and around the
\* thresholds of the resource channel
ResourceMetrics ==
    { [k \in {} |-> 0] } \cup
    { [cpu_pct |-> c, memory_pct |-> m, disk_pct |-> 4500] :
          m \in {0, 6000, 7000, 9420}, c \in {0, 7000, 8750} }

\* the DetectiveFindings handed to _perform_analysis
FindingsArgs ==
    FindingsInputs \cup
    { [error_count |-> 5, error_types |-> << >>,
       resource_metrics |-> [cpu_pct |-> 2000, memory_pct |-> 2000, disk_pct |-> 4500],
       recent_deployments |-> << >>, key_error_messages |-> << >>] } \cup
    { [error_count |-> n, error_types |-> ts, resource_metrics |-> rm,
       recent_deployments |-> ds, key_error_messages |-> ms] :
          n \in {100, 101, 1247},
          ts \in { << >>, << "OutOfMemoryError" >> },
          rm \in ResourceMetrics,
          ds \in { << >>, << "v2.4.1" >> },
          ms \in MessageLists }

\* the optional HistorianMatches handed to _perform_analysis: None, the
\* history matcher's results, or one incident with its similarity at and
\* around the thresholds of the engine
HistoryArgs ==
    { None } \cup { Some(h) : h \in HistoryInputs } \cup
    { Some([similar_incidents |->
               << [incident_id |-> "INC-2847", similarity_score |-> s,
                   root_cause |-> c] >>]) :
          s \in {7000, 7230, 8000, 8500, 8750},
          c \in {"Memory leak in Redis connection pool introduced in recent deployment",
                 "Database connection pool exhaustion after traffic spike",
                 "Inefficient query after schema migration"} }

\* a _perform_analysis whose _determine_primary_cause reads hypotheses[0]
\* without the empty-list fallback
AnalysisErrorNoFallback(findings, history) ==
    IF Len(GenerateHypotheses(findings, history)) = 0
    THEN Some("IndexError") ELSE None

\* The exception _perform_analysis raises, if any.  The engine subscripts
\* lists at [0] and reads history.similar_incidents, each under a guard: a
\* subscript evaluated on an empty list is an IndexError, the attribute read
\* on None an AttributeError.  Each entry below is << the expression is
\* evaluated, it raises >>.
AnalysisError(findings, history) ==
    LET similar == SimilarIncidents(history)
        hypotheses == GenerateHypotheses(findings, history)
        connection_errors ==
            SelectSeq(findings.key_error_messages,
                      LAMBDA msg : \E k \in {"connection", "timeout", "pool",
                                             "circuit breaker", "failed to allocate"} :
                                       Mentions(msg, k))
        circuit_breaker_errors ==
            SelectSeq(findings.key_error_messages,
                      LAMBDA msg : \/ Mentions(msg, "circuit breaker")
                                   \/ Mentions(msg, "circuit opened"))
        attribute_reads ==
            \* "history and history.similar_incidents"
            << << history # None, history = None >> >>
        subscripts ==
            \* "if findings.recent_deployments: ... recent_deployments[0]"
            << << Len(findings.recent_deployments) > 0,
                  Len(findings.recent_deployments) = 0 >>,
               \* "if history and history.similar_incidents: ... similar_incidents[0]"
               << history # None /\ Len(similar) > 0, Len(similar) = 0 >>,
               \* "connection_errors[0] if connection_errors else ..."
               << Len(connection_errors) >= 2 /\ Len(connection_errors) > 0,
                  Len(connection_errors) = 0 >>,
               \* "if circuit_breaker_errors: ... circuit_breaker_errors[0]"
               << Len(circuit_breaker_errors) > 0, Len(circuit_breaker_errors) = 0 >>,
               \* "if not hypotheses: return ...; top_hypothesis = hypotheses[0]"
               << Len(hypotheses) # 0, Len(hypotheses) = 0 >> >>
    IN IF \E i \in 1..Len(attribute_reads) : attribute_reads[i][1] /\ attribute_reads[i][2]
       THEN Some("AttributeError")
       ELSE IF \E i \in 1..Len(subscripts) : subscripts[i][1] /\ subscripts[i][2]
       THEN Some("IndexError")
       ELSE None

InitDiagnose ==
    /\ now = 0
    /\ pc = [r \in Runs |-> "idle"]
    /\ initial_state = << >>
    /\ channels = << >>
    /\ node_state = << >>
    /\ update = [r \in Runs |-> NoUpdate]
    /\ resp = << >>
    /\ invoked = [r \in Runs |-> << >>]
    /\ calls = [r \in Runs |-> << >>]
    /\ raised = [r \in Runs |-> None]
    /\ dec_in = None
    /\ dec_out = None
    /\ diag_in \in { Some([findings |-> f, history |-> h]) :
                        f \in FindingsArgs, h \in HistoryArgs }
    /\ diag_out = None
    /\ ent_in = None
    /\ ent_out = None
    /\ rec_in = None
    /\ rec_out = None
    /\ reports = [r \in Runs |-> None]

\* one call of _perform_analysis: the diagnosis, or the exception raised
Diagnose ==
    /\ diag_out = None
    /\ LET findings == diag_in[1].findings
           history == diag_in[1].history
           error == AnalysisError(findings, history)
       IN diag_out' = IF error # None
                      THEN Some([raised |-> error[1]])
                      ELSE Some(PerformAnalysis(findings, history))
    /\ UNCHANGED << now, pc, initial_state, channels, node_state, update, resp,
                    invoked, calls, raised, dec_in, dec_out, diag_in,
                    ent_in, ent_out,
                    rec_in, rec_out, reports >>

\* respond's call of _make_decision on the diagnosis
DecideOnDiagnosis ==
    /\ diag_out # None
    /\ "raised" \notin DOMAIN diag_out[1]
    /\ dec_out = None
    /\ LET diagnosis == diag_out[1]
           confidence == diagnosis.primary_root_cause.confidence
           risk_level == diagnosis.recommended_action.risk_level
       IN /\ dec_in' = Some([confidence |-> confidence, risk_level |-> risk_level])
          /\ dec_out' = Some(MakeDecision(confidence, risk_level))
    /\ UNCHANGED << now, pc, initial_state, channels, node_state, update, resp,
                    invoked, calls, raised, diag_in, diag_out, ent_in, ent_out,
                    rec_in, rec_out, reports >>

NextDiagnose == Diagnose \/ DecideOnDiagnosis

SpecDiagnose == InitDiagnose /\ [][NextDiagnose]_vars


(* --------------------- the entities of state.py ----------------------- *)

\* how far outside 0..100 (in hundredths) the confidences handed to the
\* constructors reach
MaxExcess == 50

\* what a pydantic constructor raises on a field that fails validation
ValidationError == [raised |-> "ValidationError"]

\* Hypothesis(hypothesis=..., confidence=...): "confidence: float", any
\* number is taken
Hypothesis(hypothesis, confidence) ==
    [hypothesis |-> hypothesis, confidence |-> confidence]

\* RootCauseAnalysis(cause=..., confidence=...): "confidence: float", any
\* number is taken
RootCauseAnalysis(cause, confidence) ==
    [cause |-> cause, confidence |-> confidence]

\* RecommendedAction(action=..., risk_level=...): "risk_level:
\* Literal["LOW", "MEDIUM", "HIGH"]", any other value is a validation error
RecommendedAction(action, risk_level) ==
    IF risk_level \in RiskLevels
    THEN [action |-> action, risk_level |-> risk_level]
    ELSE ValidationError

\* the confidences handed to the constructors: around 0 and around 100
ConfidenceArgs ==
    ((0 - MaxExcess)..MaxExcess)
    \cup ((MaxConfidence - MaxExcess)..(MaxConfidence + MaxExcess))

\* the risk tiers handed to the constructor
RiskLevelArgs == RiskLevels \cup {"CRITICAL", "low"}

InitEntities ==
    /\ now = 0
    /\ pc = [r \in Runs |-> "idle"]
    /\ initial_state = << >>
    /\ channels = << >>
    /\ node_state = << >>
    /\ update = [r \in Runs |-> NoUpdate]
    /\ resp = << >>
    /\ invoked = [r \in Runs |-> << >>]
    /\ calls = [r \in Runs |-> << >>]
    /\ raised = [r \in Runs |-> None]
    /\ dec_in = None
    /\ dec_out = None
    /\ diag_in = None
    /\ diag_out = None
    /\ ent_in \in { Some([confidence |-> c, risk_level |-> l]) :
                       c \in ConfidenceArgs, l \in RiskLevelArgs }
    /\ ent_out = None
    /\ rec_in = None
    /\ rec_out = None
    /\ reports = [r \in Runs |-> None]

\* the entities of a diagnosis are built as _perform_analysis builds them: a
\* hypothesis, the root cause, the recommended action; the first validation
\* error ends the construction
Construct ==
    /\ ent_out = None
    /\ LET hypothesis == Hypothesis("Bad deployment causing errors",
                                    ent_in[1].confidence)
           root_cause == RootCauseAnalysis(hypothesis.hypothesis, hypothesis.confidence)
           action == RecommendedAction("Rollback to previous version",
                                       ent_in[1].risk_level)
       IN ent_out' = IF "raised" \in DOMAIN action
                     THEN Some(action)
                     ELSE Some([hypotheses |-> << hypothesis >>,
                                primary_root_cause |-> root_cause,
                                recommended_action |-> action])
    /\ UNCHANGED << now, pc, initial_state, channels, node_state, update, resp,
                    invoked, calls, raised, dec_in, dec_out, diag_in, diag_out,
                    ent_in, rec_in, rec_out, reports >>

\* respond's call of _make_decision on the entities built
DecideOnEntities ==
    /\ ent_out # None
    /\ "raised" \notin DOMAIN ent_out[1]
    /\ dec_out = None
    /\ LET confidence == ent_out[1].primary_root_cause.confidence
           risk_level == ent_out[1].recommended_action.risk_level
       IN /\ dec_in' = Some([confidence |-> confidence, risk_level |-> risk_level])
          /\ dec_out' = Some(MakeDecision(confidence, risk_level))
    /\ UNCHANGED << now, pc, initial_state, channels, node_state, update, resp,
                    invoked, calls, raised, diag_in, diag_out, ent_in, ent_out,
                    rec_in, rec_out, reports >>

NextEntities == Construct \/ DecideOnEntities

SpecEntities == InitEntities /\ [][NextEntities]_vars

(* ------------------ _recommend_action over its domain ----------------- *)

\* the root causes handed to _recommend_action: every text of the keyword
\* table as the cause, at the confidences a root cause can have
RootCauseArgs ==
    { RootCauseAnalysis(cause, confidence) :
          cause \in DOMAIN TextKeywords,
          confidence \in {3000} \cup { 5000 + 500 * i : i \in 0..9 } }

InitRecommend ==
    /\ now = 0
    /\ pc = [r \in Runs |-> "idle"]
    /\ initial_state = << >>
    /\ channels = << >>
    /\ node_state = << >>
    /\ update = [r \in Runs |-> NoUpdate]
    /\ resp = << >>
    /\ invoked = [r \in Runs |-> << >>]
    /\ calls = [r \in Runs |-> << >>]
    /\ raised = [r \in Runs |-> None]
    /\ dec_in = None
    /\ dec_out = None
    /\ diag_in = None
    /\ diag_out = None
    /\ ent_in = None
    /\ ent_out = None
    /\ rec_in \in { Some(root_cause) : root_cause \in RootCauseArgs }
    /\ rec_out = None
    /\ reports = [r \in Runs |-> None]

\* one call of _recommend_action
Recommend ==
    /\ rec_out = None
    /\ rec_out' = Some(RecommendAction(rec_in[1]))
    /\ UNCHANGED << now, pc, initial_state, channels, node_state, update, resp,
                    invoked, calls, raised, dec_in, dec_out, diag_in, diag_out,
                    ent_in, ent_out, rec_in, reports >>

NextRecommend == Recommend

SpecRecommend == InitRecommend /\ [][NextRecommend]_vars

(* ------------------------------ properties ---------------------------- *)

\* C1: _make_decision returns exactly one decision for every confidence in
\* 0..100 and every risk tier, the one of the first matching rule: HIGH risk
\* gives ALERT_HUMAN; else confidence >= 85 with LOW risk gives AUTO_EXECUTE;
\* else confidence >= 70 gives REQUEST_APPROVAL; else ALERT_HUMAN.
C1_DecisionPolicy ==
    dec_out # None =>
        LET c == dec_in[1].confidence
            l == dec_in[1].risk_level
            d == dec_out[1]
        IN /\ d \in Decisions
           /\ (d = "AUTO_EXECUTE") <=> (l = "LOW" /\ c >= 8500)
           /\ (d = "REQUEST_APPROVAL") <=>
                  (l # "HIGH" /\ c >= 7000 /\ ~(l = "LOW" /\ c >= 8500))
           /\ (d = "ALERT_HUMAN") <=> (l = "HIGH" \/ c < 7000)
           /\ (c = 9000 /\ l = "LOW") => d = "AUTO_EXECUTE"
           /\ (c = 9000 /\ l = "HIGH") => d = "ALERT_HUMAN"
           /\ (c = 7500 /\ l = "MEDIUM") => d = "REQUEST_APPROVAL"
           /\ (c = 5000 /\ l = "LOW") => d = "ALERT_HUMAN"

C1_Witness ==
    /\ dec_out = Some("ALERT_HUMAN")
    /\ dec_in = Some([confidence |-> 9000, risk_level |-> "HIGH"])

\* the remediation executor was called in run r
RemediationExecuted(r) ==
    \E i \in 1..Len(calls[r]) : calls[r][i] = "execute_remediation"

\* the ResponderActions of run r, wherever one is held: in the dict respond
\* returned, in the graph's state values, in the caller's state
ResponderActions(r) ==
    (IF "responder_action" \in DOMAIN update[r]
     THEN { update[r].responder_action[1] } ELSE {})
    \cup (IF r \in DOMAIN channels /\ channels[r].responder_action # None
          THEN { channels[r].responder_action[1] } ELSE {})
    \cup (IF r \in DOMAIN initial_state /\ initial_state[r].responder_action # None
          THEN { initial_state[r].responder_action[1] } ELSE {})

\* C2: the remediation is executed only under the decision AUTO_EXECUTE
\* (root-cause confidence >= 85 and risk tier LOW); under REQUEST_APPROVAL
\* and ALERT_HUMAN none is executed and the ResponderAction's execution
\* status is PENDING_APPROVAL.
C2_RemediationOnlyOnAutoExecute ==
    \A r \in Runs :
        IF r \in DOMAIN resp
        THEN LET diagnosis == node_state[r].analyzer_diagnosis[1] IN
             /\ RemediationExecuted(r) =>
                   /\ resp[r].decision = "AUTO_EXECUTE"
                   /\ diagnosis.primary_root_cause.confidence >= 8500
                   /\ diagnosis.recommended_action.risk_level = "LOW"
             /\ resp[r].decision \in {"REQUEST_APPROVAL", "ALERT_HUMAN"} =>
                   /\ ~RemediationExecuted(r)
                   /\ \A a \in ResponderActions(r) :
                         /\ a.decision = resp[r].decision
                         /\ a.execution_status = "PENDING_APPROVAL"
        ELSE ~RemediationExecuted(r)

C2_Witness ==
    \E r \in DOMAIN resp :
        /\ RemediationExecuted(r)
        /\ resp[r].decision = "AUTO_EXECUTE"

\* the place of a workflow status in started -> investigating -> analyzing
\* -> responding -> completed | failed
StatusRank(status) ==
    CASE status = "started" -> 0
      [] status = "investigating" -> 1
      [] status = "analyzing" -> 2
      [] status = "responding" -> 3
      [] status = "completed" -> 4
      [] status = "failed" -> 4

\* from one IncidentState of a run to its next value the status stays, or
\* leaves a status that is not final for a later one or for failed
StatusMovesForward(before, after) ==
    \A r \in DOMAIN before :
        /\ r \in DOMAIN after
        /\ before[r].workflow_status # after[r].workflow_status =>
              /\ before[r].workflow_status \notin {"completed", "failed"}
              /\ \/ after[r].workflow_status = "failed"
                 \/ StatusRank(after[r].workflow_status)
                        > StatusRank(before[r].workflow_status)

\* C3: the workflow status of an incident only moves forward through
\* started, investigating, analyzing, responding, completed, or to failed,
\* and never changes once it is completed or failed.  This holds of the
\* caller's state, of the graph's state values and of the stages' own state.
C3_StatusMovesForward ==
    [][/\ StatusMovesForward(initial_state, initial_state')
       /\ StatusMovesForward(channels, channels')
       /\ StatusMovesForward(node_state, node_state')]_vars

C3_Witness ==
    \E r \in DOMAIN channels :
        /\ channels[r].workflow_status = "responding"
        /\ initial_state[r].workflow_status = "failed"

\* some IncidentState of run r says completed or failed
IncidentFinal(r) ==
    \/ r \in DOMAIN initial_state
          /\ initial_state[r].workflow_status \in {"completed", "failed"}
    \/ r \in DOMAIN channels
          /\ channels[r].workflow_status \in {"completed", "failed"}
    \/ r \in DOMAIN node_state
          /\ node_state[r].workflow_status \in {"completed", "failed"}

OutputFields ==
    {"detective_findings", "historian_matches", "analyzer_diagnosis", "responder_action"}

\* the stage outputs, the timeline and the error list of a state are the same
SameRecord(before, after) ==
    /\ \A f \in OutputFields : after[f] = before[f]
    /\ after.timeline = before.timeline
    /\ after.errors = before.errors

\* C4: once an incident's workflow status is completed or failed, nothing
\* more is written to the incident's state: no stage output is set and no
\* timeline or error entry is appended, in the graph's state values or in
\* the caller's state.  (respond marks its state completed before the
\* ResponderAction it returns is written anywhere.)
C4_NoWriteAfterFinal ==
    [][\A r \in Runs :
          IncidentFinal(r) =>
              /\ SameRecord(initial_state[r], initial_state'[r])
              /\ SameRecord(channels[r], channels'[r])]_vars

\* a stage output that is set keeps its value
OutputsKept(before, after) ==
    \A r \in DOMAIN before :
        \A f \in OutputFields : before[r][f] # None => after[r][f] = before[r][f]

\* the position at which the graph merges the update that carries output f
MergeOf(f) ==
    CASE f = "detective_findings" -> "merge_detective"
      [] f = "historian_matches" -> "merge_historian"
      [] f = "analyzer_diagnosis" -> "merge_analyzer"
      [] f = "responder_action" -> "merge_responder"

\* C5: each of detective_findings, historian_matches, analyzer_diagnosis and
\* responder_action is written only by its own stage (the graph's value
\* changes only when that stage's update is merged, the caller's only when
\* handle_alert copies the result), and once set it is never overwritten
\* with another value or cleared.
C5_OutputsWrittenOnce ==
    [][/\ OutputsKept(initial_state, initial_state')
       /\ OutputsKept(channels, channels')
       /\ OutputsKept(node_state, node_state')
       /\ \A r \in DOMAIN channels : \A f \in OutputFields :
             /\ channels'[r][f] # channels[r][f] =>
                   /\ pc[r] = MergeOf(f)
                   /\ channels'[r][f] = update[r][f]
             /\ initial_state'[r][f] # initial_state[r][f] =>
                   /\ pc[r] = "finalize"
                   /\ initial_state'[r][f] = channels[r][f]
             /\ f \in DOMAIN update'[r] => pc'[r] = MergeOf(f)]_vars

C5_Witness ==
    \E r \in DOMAIN initial_state :
        /\ pc[r] = "returned"
        /\ \A f \in OutputFields : initial_state[r][f] # None

IsPrefix(s, t) ==
    /\ Len(s) <= Len(t)
    /\ \A i \in 1..Len(s) : s[i] = t[i]

\* the output field of each stage
StageOutput ==
    [detective |-> "detective_findings", historian |-> "historian_matches",
     analyzer |-> "analyzer_diagnosis", responder |-> "responder_action"]

\* C6: the stages of a run are invoked in the order detective, historian,
\* analyzer, responder, each at most once; a stage is invoked only when the
\* output of the stage before it has been merged; a run that returned has
\* invoked all four.
C6_StagesInOrder ==
    \A r \in Runs :
        /\ IsPrefix(invoked[r], Stages)
        /\ \A i \in 2..Len(invoked[r]) :
              /\ channels[r][StageOutput[Stages[i - 1]]] # None
              /\ StatusRank(channels[r].workflow_status) >= i - 1
        /\ pc[r] = "returned" => invoked[r] = Stages

C6_Witness ==
    \E r \in Runs : pc[r] = "returned" /\ invoked[r] = Stages

\* C7: when a stage raises, no later stage is invoked, handle_alert does not
\* return normally, and once it has re-raised the incident state is failed,
\* holds the error in its error list and has completed_at and
\* total_duration_seconds set.
C7_FailureMarksFailed ==
    /\ [](\A r \in Runs :
            /\ raised[r] # None <=> pc[r] \in {"except", "raised"}
            /\ pc[r] = "raised" =>
                  /\ initial_state[r].workflow_status = "failed"
                  /\ initial_state[r].errors = << raised[r][1] >>
                  /\ initial_state[r].completed_at # None
                  /\ initial_state[r].total_duration_seconds # None)
    /\ [][\A r \in Runs : raised[r] # None => invoked'[r] = invoked[r]]_vars

C7_Witness ==
    \E r \in Runs :
        /\ pc[r] = "raised"
        /\ invoked[r] = << "detective", "historian" >>
        /\ initial_state[r].workflow_status = "failed"

\* C8: the state of a failed run is failed, has a non-empty error list and
\* holds the output of every stage that completed before the failure.
\* (The outputs reach the caller's state only after invoke returned.)
C8_FailedStateKeepsOutputs ==
    \A r \in Runs :
        pc[r] = "raised" =>
            /\ initial_state[r].workflow_status = "failed"
            /\ initial_state[r].errors # << >>
            /\ \A f \in OutputFields :
                  channels[r][f] # None => initial_state[r][f] = channels[r][f]

\* C9: the state handle_alert returns is completed and has completed_at and
\* total_duration_seconds set.  (mark_completed ran on the responder's own
\* state only; handle_alert skips it, the status being "completed" already.)
C9_ReturnedStateFinalized ==
    \A r \in Runs :
        pc[r] = "returned" =>
            /\ initial_state[r].workflow_status = "completed"
            /\ initial_state[r].completed_at # None
            /\ initial_state[r].total_duration_seconds # None

\* the failures of the external collaborators
CollaboratorErrors ==
    {"detective: collaborator error", "historian: collaborator error",
     "analyzer: collaborator error", "responder: notification error"}

\* C10: under the decision AUTO_EXECUTE, unless an external collaborator
\* fails, the responder runs the remediation, sends the result notification,
\* runs the monitoring check and returns a ResponderAction with decision
\* AUTO_EXECUTE and status SUCCESS or FAILED, and the run ends completed.
\* (_create_notification raises a TypeError on total_duration_seconds = None.)
C10_AutoExecuteCompletes ==
    \A r \in DOMAIN resp :
        (/\ resp[r].decision = "AUTO_EXECUTE"
         /\ \A e \in CollaboratorErrors : raised[r] # Some(e)) =>
            /\ raised[r] = None
            /\ pc[r] = "returned" =>
                  /\ initial_state[r].workflow_status = "completed"
                  /\ initial_state[r].responder_action # None
                  /\ initial_state[r].responder_action[1].decision = "AUTO_EXECUTE"
                  /\ initial_state[r].responder_action[1].execution_status
                         \in {"SUCCESS", "FAILED"}
                  /\ calls[r] = << "execute_remediation", "send_slack_notification",
                                   "monitor_service" >>

\* the channel a hypothesis comes from, in the order _generate_hypotheses
\* evaluates the channels
ChannelRank(hypothesis) ==
    CASE hypothesis = "Bad deployment causing errors" -> 1
      [] hypothesis = "Possible deployment-related issue (deployment data unavailable)" -> 1
      [] hypothesis = "Memory/CPU exhaustion causing service degradation" -> 2
      [] hypothesis = "Connection pool exhaustion or dependency failure" -> 3
      [] hypothesis = "Circuit breaker activation indicating downstream dependency failure"
             -> 4

\* the call of _perform_analysis has returned a diagnosis
Diagnosed == diag_out # None /\ "raised" \notin DOMAIN diag_out[1]

\* C11: the hypothesis list of a diagnosis has at most 4 entries, is in
\* descending order of confidence, and hypotheses of equal confidence stand in
\* channel evaluation order (deployment, resource, connection pool, circuit
\* breaker).
C11_HypothesesRanked ==
    Diagnosed =>
        LET hs == diag_out[1].hypotheses
        IN /\ Len(hs) <= 4
           /\ \A i, j \in 1..Len(hs) :
                  i < j =>
                      \/ hs[i].confidence > hs[j].confidence
                      \/ /\ hs[i].confidence = hs[j].confidence
                         /\ ChannelRank(hs[i].hypothesis) < ChannelRank(hs[j].hypothesis)

\* a diagnosis of four hypotheses, a tie among them, and a later channel
\* ranked above an earlier one
C11_Witness ==
    /\ Diagnosed
    /\ LET hs == diag_out[1].hypotheses
       IN /\ Len(hs) = 4
          /\ hs[1].confidence = hs[2].confidence
          /\ hs[3].confidence > hs[4].confidence
          /\ ChannelRank(hs[3].hypothesis) > ChannelRank(hs[4].hypothesis)
Max(a, b) == IF a >= b THEN a ELSE b

\* the confidences of the hypotheses of the diagnosis that carry the text
ConfidencesOf(text) ==
    LET hs == diag_out[1].hypotheses
    IN { hs[i].confidence : i \in { j \in 1..Len(hs) : hs[j].hypothesis = text } }

\* the metric of the findings of the call, 0 when it is missing
MetricOf(key) ==
    IF key \in DOMAIN diag_in[1].findings.resource_metrics
    THEN diag_in[1].findings.resource_metrics[key] ELSE 0

\* C12: with memory_pct > 60 or cpu_pct > 70 the list holds the resource
\* hypothesis, at confidence min(85, 50 + max(0, memory_pct - 60) +
\* max(0, cpu_pct - 70) / 2 + 15 with the OutOfMemoryError type + 10 with a
\* message that mentions memory); otherwise it holds no resource hypothesis.
C12_ResourceHypothesis ==
    Diagnosed =>
        LET findings == diag_in[1].findings
            memory_pct == MetricOf("memory_pct")
            cpu_pct == MetricOf("cpu_pct")
            oom_type == \E i \in 1..Len(findings.error_types) :
                            findings.error_types[i] = "OutOfMemoryError"
            memory_message ==
                \E i \in 1..Len(findings.key_error_messages) :
                    "memory" \in TextKeywords[findings.key_error_messages[i]]
            expected ==
                Min(8500, 5000 + Max(0, memory_pct - 6000)
                               + Max(0, cpu_pct - 7000) \div 2
                               + (IF oom_type THEN 1500 ELSE 0)
                               + (IF memory_message THEN 1000 ELSE 0))
            found == ConfidencesOf("Memory/CPU exhaustion causing service degradation")
        IN IF memory_pct > 6000 \/ cpu_pct > 7000
           THEN found = { expected }
           ELSE found = {}

\* a resource hypothesis below the cap, fired by memory alone (cpu at its
\* threshold), with the type bonus and without the message bonus
C12_Witness ==
    /\ Diagnosed
    /\ MetricOf("memory_pct") = 7000
    /\ MetricOf("cpu_pct") = 7000
    /\ ConfidencesOf("Memory/CPU exhaustion causing service degradation") = { 7500 }
\* the historical matches of the call, none when the history is None
MatchesOf ==
    IF diag_in[1].history = None THEN << >>
    ELSE diag_in[1].history[1].similar_incidents

\* C13: with no deployment record, error_count > 100 and an error type, the
\* list holds the "possible deployment issue (data unavailable)" hypothesis,
\* at confidence 70 when a historical match's root cause mentions deployment
\* and at 60 otherwise; no list holds it next to the "bad deployment"
\* hypothesis.
C13_PossibleDeployment ==
    Diagnosed =>
        LET findings == diag_in[1].findings
            deployment_match ==
                \E i \in 1..Len(MatchesOf) :
                    "deployment" \in TextKeywords[MatchesOf[i].root_cause]
            possible == ConfidencesOf(
                "Possible deployment-related issue (deployment data unavailable)")
            bad == ConfidencesOf("Bad deployment causing errors")
        IN /\ ( /\ Len(findings.recent_deployments) = 0
                /\ findings.error_count > 100
                /\ Len(findings.error_types) > 0 )
              => possible = { IF deployment_match THEN 7000 ELSE 6000 }
           /\ possible = {} \/ bad = {}

\* the hypothesis at 70, raised by a historical match
C13_Witness ==
    /\ Diagnosed
    /\ Len(MatchesOf) > 0
    /\ ConfidencesOf("Possible deployment-related issue (deployment data unavailable)")
           = { 7000 }
OomType ==
    \E i \in 1..Len(diag_in[1].findings.error_types) :
        diag_in[1].findings.error_types[i] = "OutOfMemoryError"

\* scenario A: a recent deployment, 1247 errors, an OutOfMemoryError type,
\* memory 94.2%, cpu 87.5%, best historical match 87.5
ScenarioA ==
    /\ Len(diag_in[1].findings.recent_deployments) > 0
    /\ diag_in[1].findings.error_count = 1247
    /\ OomType
    /\ MetricOf("memory_pct") = 9420
    /\ MetricOf("cpu_pct") = 8750
    /\ Len(MatchesOf) > 0
    /\ MatchesOf[1].similarity_score = 8750

\* C15: in scenario A the primary cause is the deployment hypothesis, the
\* final confidence is at least 85, the recommended action is a rollback of
\* risk LOW, and the decision is AUTO_EXECUTE.
C15_ScenarioA ==
    (Diagnosed /\ ScenarioA) =>
        LET diagnosis == diag_out[1]
        IN /\ diagnosis.primary_root_cause.cause = "Bad deployment causing errors"
           /\ diagnosis.primary_root_cause.confidence >= 8500
           /\ diagnosis.recommended_action.action = "Rollback to previous version"
           /\ diagnosis.recommended_action.risk_level = "LOW"
           /\ dec_out # None => dec_out = Some("AUTO_EXECUTE")

\* scenario A decided, the resource and connection-pool hypotheses tied with
\* the deployment hypothesis at 85
C15_Witness ==
    /\ Diagnosed
    /\ ScenarioA
    /\ dec_out = Some("AUTO_EXECUTE")
    /\ ConfidencesOf("Bad deployment causing errors") = { 8500 }
    /\ ConfidencesOf("Memory/CPU exhaustion causing service degradation") = { 8500 }
    /\ ConfidencesOf("Connection pool exhaustion or dependency failure") = { 8500 }
\* the error messages of the call that carry both keywords
MessagesWith(k1, k2) ==
    LET msgs == diag_in[1].findings.key_error_messages
    IN { i \in 1..Len(msgs) : k1 \in TextKeywords[msgs[i]] /\ k2 \in TextKeywords[msgs[i]] }

\* scenario B: no deployment, at least 2 connection-timeout messages, memory
\* 70%, best historical match 72.3 with a root cause that mentions the
\* connection pool
ScenarioB ==
    /\ Len(diag_in[1].findings.recent_deployments) = 0
    /\ Cardinality(MessagesWith("connection", "timeout")) >= 2
    /\ MetricOf("memory_pct") = 7000
    /\ Len(MatchesOf) > 0
    /\ MatchesOf[1].similarity_score = 7230
    /\ "connection" \in TextKeywords[MatchesOf[1].root_cause]
    /\ "pool" \in TextKeywords[MatchesOf[1].root_cause]

\* the connection-pool hypothesis is in the list, at confidence 70 or more,
\* and the decision, once taken, is REQUEST_APPROVAL
ScenarioBOutcome ==
    /\ ConfidencesOf("Connection pool exhaustion or dependency failure") # {}
    /\ \A c \in ConfidencesOf("Connection pool exhaustion or dependency failure") :
           c >= 7000
    /\ dec_out # None => dec_out = Some("REQUEST_APPROVAL")

\* C16 as stated: in scenario B the connection-pool hypothesis has confidence
\* at least 70 and the decision is REQUEST_APPROVAL.
C16_ScenarioBAsStated ==
    (Diagnosed /\ ScenarioB) => ScenarioBOutcome

\* C16: in scenario B with cpu_pct at most 70 and no error message that
\* mentions memory, the connection-pool hypothesis has confidence at least 70
\* and the decision is REQUEST_APPROVAL.
C16_ScenarioB ==
    ( /\ Diagnosed
      /\ ScenarioB
      /\ MetricOf("cpu_pct") <= 7000
      /\ MessagesWith("memory", "memory") = {} ) => ScenarioBOutcome

\* scenario B decided: the connection-pool cause at 80 + 5, held back from
\* auto-execution by its MEDIUM risk
C16_Witness ==
    /\ Diagnosed
    /\ ScenarioB
    /\ MetricOf("cpu_pct") <= 7000
    /\ MessagesWith("memory", "memory") = {}
    /\ diag_out[1].primary_root_cause =
           [cause |-> "Connection pool exhaustion or dependency failure",
            confidence |-> 8500]
    /\ dec_out = Some("REQUEST_APPROVAL")
\* the error messages of the call that carry one of the keywords
MessagesWithAny(keywords) ==
    LET msgs == diag_in[1].findings.key_error_messages
    IN { i \in 1..Len(msgs) : TextKeywords[msgs[i]] \cap keywords # {} }

\* no channel of the engine fires on the findings of the call
NoChannelFires ==
    LET findings == diag_in[1].findings
    IN /\ Len(findings.recent_deployments) = 0
       /\ Len(findings.error_types) = 0 \/ findings.error_count <= 100
       /\ MetricOf("memory_pct") <= 6000
       /\ MetricOf("cpu_pct") <= 7000
       /\ Cardinality(MessagesWithAny({"connection", "timeout", "pool",
                                       "circuit breaker", "failed to allocate"})) < 2
       /\ MessagesWithAny({"circuit breaker", "circuit opened"}) = {}

\* C17: when no channel fires the hypothesis list is empty, the root cause is
\* "Unknown - insufficient data" at confidence 30 whatever the history, and
\* the decision is ALERT_HUMAN.
C17_ScenarioC ==
    (Diagnosed /\ NoChannelFires) =>
        /\ diag_out[1].hypotheses = << >>
        /\ diag_out[1].primary_root_cause =
               [cause |-> "Unknown - insufficient data", confidence |-> 3000]
        /\ dec_out # None => dec_out = Some("ALERT_HUMAN")

\* no channel fired, a strong historical match, and the decision taken
C17_Witness ==
    /\ Diagnosed
    /\ NoChannelFires
    /\ Len(MatchesOf) > 0
    /\ MatchesOf[1].similarity_score = 8750
    /\ diag_out[1].hypotheses = << >>
    /\ dec_out = Some("ALERT_HUMAN")
\* the cause texts the engine can name
Causes ==
    { "Bad deployment causing errors",
      "Possible deployment-related issue (deployment data unavailable)",
      "Memory/CPU exhaustion causing service degradation",
      "Connection pool exhaustion or dependency failure",
      "Circuit breaker activation indicating downstream dependency failure",
      "Unknown - insufficient data" }

\* C18: on every input, the empty and partial ones included (no deployment,
\* no error type, no error message, zero or missing resource metrics, no
\* history or a history without a match), the call of _perform_analysis
\* returns a diagnosis with a root cause and a recommended action; it does
\* not raise.
C18_NeverRaises ==
    diag_out # None =>
        /\ "raised" \notin DOMAIN diag_out[1]
        /\ diag_out[1].primary_root_cause.cause \in Causes
        /\ diag_out[1].primary_root_cause.confidence \in 0..MaxConfidence
        /\ diag_out[1].recommended_action.risk_level \in RiskLevels

\* a diagnosis returned on no evidence at all: no deployment, no error type,
\* no message, no metric, no history
C18_Witness ==
    /\ Diagnosed
    /\ diag_in[1].history = None
    /\ diag_in[1].findings.recent_deployments = << >>
    /\ diag_in[1].findings.error_types = << >>
    /\ diag_in[1].findings.key_error_messages = << >>
    /\ DOMAIN diag_in[1].findings.resource_metrics = {}
    /\ diag_out[1].primary_root_cause.cause = "Unknown - insufficient data"
    /\ diag_out[1].recommended_action.action = "Restart and monitor closely"
\* C20: a Hypothesis or RootCauseAnalysis with a confidence outside 0..100,
\* or a RecommendedAction with a risk tier other than LOW, MEDIUM, HIGH, is
\* rejected when it is constructed, so _make_decision is never called with a
\* confidence or a risk tier outside its domain.
C20_EntitiesValidated ==
    /\ ( /\ ent_out # None
         /\ \/ ent_in[1].confidence \notin 0..MaxConfidence
            \/ ent_in[1].risk_level \notin RiskLevels )
           => "raised" \in DOMAIN ent_out[1]
    /\ (ent_in # None /\ dec_in # None) =>
           /\ dec_in[1].confidence \in 0..MaxConfidence
           /\ dec_in[1].risk_level \in RiskLevels
\* everything held for run q: its position, its IncidentState in each holder,
\* the pending update, the responder's locals, the calls made, the exception
RunState(q) ==
    << pc[q],
       IF q \in DOMAIN initial_state THEN Some(initial_state[q]) ELSE None,
       IF q \in DOMAIN channels THEN Some(channels[q]) ELSE None,
       IF q \in DOMAIN node_state THEN Some(node_state[q]) ELSE None,
       update[q],
       IF q \in DOMAIN resp THEN Some(resp[q]) ELSE None,
       invoked[q], calls[q], raised[q] >>

\* the final state s of a run is the one its own alert, findings and history
\* give when the run is alone: the outputs follow from the run's own inputs,
\* the timeline is the one of a single run, the errors are the run's own
OwnOutcome(s, error) ==
    IF s.workflow_status = "failed"
    THEN /\ s.errors = << error[1] >>
         /\ s.timeline = << [agent |-> "orchestrator",
                             event |-> "Incident workflow started"] >>
         /\ \A k \in {"detective_findings", "historian_matches",
                       "analyzer_diagnosis", "responder_action"} : s[k] = None
    ELSE /\ s.workflow_status = "completed"
         /\ s.errors = << >>
         /\ s.timeline = << [agent |-> "orchestrator",
                             event |-> "Incident workflow started"] >>
         /\ s.detective_findings[1] \in FindingsInputs
         /\ s.historian_matches[1] \in HistoryInputs
         /\ s.analyzer_diagnosis =
                Some(PerformAnalysis(s.detective_findings[1], s.historian_matches))
         /\ LET diagnosis == s.analyzer_diagnosis[1]
                decision == MakeDecision(diagnosis.primary_root_cause.confidence,
                                         diagnosis.recommended_action.risk_level)
            IN /\ s.responder_action[1].decision = decision
               /\ s.responder_action[1].execution_log = << RationaleEntry(decision) >>

\* C21: with two handle_alert runs interleaved in any order, a step of one
\* run leaves everything held for the other run as it was, and a run that
\* ends, ends in the final state (status, stage outputs, timeline, errors)
\* its own inputs give when it runs alone.
C21_RunsIsolated ==
    [][ \A q \in Runs :
           /\ pc'[q] = pc[q] => RunState(q)' = RunState(q)
           /\ (pc'[q] \in {"returned", "raised"} /\ pc'[q] # pc[q]) =>
                  OwnOutcome(initial_state'[q], raised'[q]) ]_vars

\* two runs that overlapped (both started at 0, run 1 ended at 1) and ended
\* differently: run 1 returned, run 2 failed in its historian
C21_Witness ==
    /\ pc[1] = "returned"
    /\ pc[2] = "raised"
    /\ initial_state[1].started_at = 0
    /\ initial_state[2].started_at = 0
    /\ node_state[1].completed_at = Some(1)
    /\ initial_state[2].errors = << "historian: collaborator error" >>
    /\ initial_state[1].workflow_status = "completed"
\* C22: the recommended action is looked up on the root-cause text, the
\* keyword groups tried in the order deployment; memory, cpu, resource;
\* connection, pool; circuit, dependency; a cause of several groups gets the
\* action of the earliest one, a cause of none the default.
C22_ActionLookup ==
    rec_out # None =>
        LET found == TextKeywords[rec_in[1].cause]
            groups == << {"deployment"}, {"memory", "cpu", "resource"},
                         {"connection", "pool"}, {"circuit", "dependency"} >>
            actions ==
                << [action |-> "Rollback to previous version", risk_level |-> "LOW"],
                   [action |-> "Restart pods and scale replicas", risk_level |-> "LOW"],
                   [action |-> "Scale database/Redis replicas and restart",
                    risk_level |-> "MEDIUM"],
                   [action |-> "Investigate downstream dependencies and restart",
                    risk_level |-> "MEDIUM"],
                   [action |-> "Restart and monitor closely", risk_level |-> "MEDIUM"] >>
            matching == { g \in 1..4 : groups[g] \cap found # {} }
            earliest == IF matching = {} THEN 5
                        ELSE CHOOSE g \in matching : \A h \in matching : g <= h
        IN rec_out[1] = actions[earliest]

\* a cause of the deployment, the resource and the connection group, given
\* the rollback
C22_Witness ==
    /\ rec_out # None
    /\ {"deployment", "memory", "connection"} \subseteq TextKeywords[rec_in[1].cause]
    /\ rec_out[1].action = "Rollback to previous version"
\* the log opens with the rationale entry of the decision
OpensWithRationale(log, decision) ==
    /\ Len(log) >= 1
    /\ \/ decision = "AUTO_EXECUTE" /\ log[1] = "Auto-execution approved"
       \/ decision = "REQUEST_APPROVAL" /\ log[1] = "Requesting human approval"
       \/ decision = "ALERT_HUMAN" /\ log[1] = "Human intervention required"

\* C23: on each decision path the rationale entry is the first entry of the
\* execution log, and it is there before the remediation executor, the
\* notification sender or the monitoring probe is called.
C23_RationaleFirst ==
    \A r \in Runs :
        /\ calls[r] # << >> =>
               /\ r \in DOMAIN resp
               /\ OpensWithRationale(resp[r].execution_log, resp[r].decision)
        /\ r \in DOMAIN resp =>
               OpensWithRationale(resp[r].execution_log, resp[r].decision)
        /\ \A a \in ResponderActions(r) : OpensWithRationale(a.execution_log, a.decision)

\* the remediation executor called, the log opened by the rationale entry and
\* continued by the remediation's entries
C23_Witness ==
    \E r \in Runs :
        /\ calls[r] = << "execute_remediation" >>
        /\ resp[r].execution_log[1] = "Auto-execution approved"
        /\ Len(resp[r].execution_log) > 1
\* the notification sender failed in run r
NotificationFailed(r) == raised[r] = Some("responder: notification error")

\* C24: when the notification sender fails, the run still ends completed and
\* its final state holds the ResponderAction with the decision, the
\* execution status and the execution log that opens with the rationale
\* entry.
C24_NotificationFailureTolerated ==
    \A r \in Runs :
        (NotificationFailed(r) /\ pc[r] \in {"returned", "raised"}) =>
            /\ initial_state[r].workflow_status = "completed"
            /\ initial_state[r].responder_action # None
            /\ OpensWithRationale(initial_state[r].responder_action[1].execution_log,
                                  initial_state[r].responder_action[1].decision)
CompletedTimeline ==
    << [agent |-> "orchestrator", event |-> "Incident workflow started"],
       [agent |-> "detective", event |-> "Investigation started"],
       [agent |-> "detective", event |-> "Investigation completed"],
       [agent |-> "historian", event |-> "History search started"],
       [agent |-> "historian", event |-> "History search completed"],
       [agent |-> "analyzer", event |-> "Analysis started"],
       [agent |-> "analyzer", event |-> "Analysis completed"],
       [agent |-> "responder", event |-> "Response evaluation started"],
       [agent |-> "responder", event |-> "Response completed"] >>

\* the failed event of each stage
FailedEvents ==
    { [agent |-> "detective", event |-> "Investigation failed"],
      [agent |-> "historian", event |-> "History search failed"],
      [agent |-> "analyzer", event |-> "Analysis failed"],
      [agent |-> "responder", event |-> "Response failed"] }

\* C26: the final state of a completed run holds, after the coordinator's
\* "Incident workflow started" event, a started and a completed event for each
\* of the four stages in pipeline order; the final state of a failed run holds
\* the failed event of the stage that failed; and the timeline and the error
\* list of the final state only grow by appending.  (The stages' events go to
\* the state each stage was called with, not to the state handle_alert holds.)
C26_StageEventsInTimeline ==
    /\ [](\A r \in Runs :
            /\ pc[r] = "returned" => initial_state[r].timeline = CompletedTimeline
            /\ pc[r] = "raised" =>
                  \E i \in DOMAIN initial_state[r].timeline :
                      initial_state[r].timeline[i] \in FailedEvents)
    /\ [][\A r \in DOMAIN initial_state :
              /\ IsPrefix(initial_state[r].timeline, initial_state'[r].timeline)
              /\ IsPrefix(initial_state[r].errors, initial_state'[r].errors)]_vars

\* C27: any two handle_alert calls create incident states with different
\* incident ids, whether one follows the other or they overlap, and also when
\* both read the clock within the same second.  (The id is the clock reading
\* formatted to the second.)
C27_IncidentIdsUnique ==
    \A r1, r2 \in DOMAIN initial_state :
        r1 # r2 => initial_state[r1].incident_id # initial_state[r2].incident_id

\* the outputs a workflow status stands for
OutputsAt(status) ==
    CASE status = "investigating" -> {"detective_findings"}
      [] status = "analyzing" -> {"detective_findings", "historian_matches"}
      [] status = "responding" ->
            {"detective_findings", "historian_matches", "analyzer_diagnosis"}
      [] status = "completed" -> OutputFields
      [] OTHER -> {}

\* the status of an IncidentState agrees with the outputs it holds, and no
\* output is present while the output of an earlier stage is absent
StatusAgrees(state) ==
    /\ \A f \in OutputsAt(state.workflow_status) : state[f] # None
    /\ \A i \in 2..Len(Stages) :
          state[StageOutput[Stages[i]]] # None =>
              state[StageOutput[Stages[i - 1]]] # None

\* C28: in every reachable state of a run the workflow status agrees with the
\* stage outputs present: investigating with the findings, analyzing with
\* findings and history matches, responding with these and the diagnosis,
\* completed with all four, and no output without the outputs of the earlier
\* stages; this of the caller's state, of the graph's values and of the state
\* a stage works on.  (respond marks its state completed and only then
\* returns the ResponderAction.)
C28_StatusAgreesWithOutputs ==
    \A r \in Runs :
        /\ r \in DOMAIN initial_state => StatusAgrees(initial_state[r])
        /\ r \in DOMAIN channels => StatusAgrees(channels[r])
        /\ r \in DOMAIN node_state => StatusAgrees(node_state[r])

\* C29: every hypothesis of a diagnosis has a confidence between 50 and 85,
\* the root-cause confidence is 30 when there is no hypothesis and between 50
\* and 95 otherwise, the history boost never takes the root-cause confidence
\* below the top hypothesis's, the recommended risk tier is never HIGH, and
\* the decision on the diagnosis is ALERT_HUMAN only at a confidence below 70.
C29_ConfidenceRanges ==
    Diagnosed =>
        LET hs == diag_out[1].hypotheses
            root == diag_out[1].primary_root_cause
        IN /\ \A i \in 1..Len(hs) :
                  hs[i].confidence >= 5000 /\ hs[i].confidence <= 8500
           /\ IF Len(hs) = 0
              THEN root.confidence = 3000
              ELSE /\ root.confidence >= 5000 /\ root.confidence <= 9500
                   /\ root.confidence >= hs[1].confidence
           /\ diag_out[1].recommended_action.risk_level \in {"LOW", "MEDIUM"}
           /\ dec_out = Some("ALERT_HUMAN") => root.confidence < APPROVAL_MIN_CONFIDENCE

\* a capped hypothesis on top, boosted to the ceiling, and the decision taken
C29_Witness ==
    /\ Diagnosed
    /\ diag_out[1].hypotheses # << >>
    /\ diag_out[1].hypotheses[1] =
           [hypothesis |-> "Memory/CPU exhaustion causing service degradation",
            confidence |-> 8500]
    /\ MetricOf("memory_pct") = 9420
    /\ MetricOf("cpu_pct") = 8750
    /\ diag_out[1].primary_root_cause.confidence = 9500
    /\ dec_out = Some("AUTO_EXECUTE")

\* the entries of the remediation are all in the log
HoldsRemediationEntries(log, action) ==
    \A i \in 1..Len(RemediationLog(action)) :
        \E j \in 1..Len(log) : log[j] = RemediationLog(action)[i]

\* C30: no executed remediation goes unrecorded: a run whose remediation was
\* executed does not end failed, and its final state is completed and holds a
\* ResponderAction with decision AUTO_EXECUTE whose execution log contains
\* the entries of the remediation.
C30_ExecutedRemediationRecorded ==
    \A r \in Runs :
        (RemediationExecuted(r) /\ pc[r] \in {"returned", "raised"}) =>
            /\ pc[r] = "returned"
            /\ initial_state[r].workflow_status = "completed"
            /\ initial_state[r].responder_action # None
            /\ initial_state[r].responder_action[1].decision = "AUTO_EXECUTE"
            /\ HoldsRemediationEntries(
                   initial_state[r].responder_action[1].execution_log,
                   initial_state[r].responder_action[1].action_taken)

====
